---- MODULE Spec2Model ----
(***************************************************************************)
(* Model of the line-oriented TCP echo service: the asynchronous server    *)
(* (accept loop and per-connection Session over one event loop) and the    *)
(* two client programs.                                                    *)
(*                                                                         *)
(* A byte string is a sequence of tokens.  "a", "\r" and "\n" are single   *)
(* bytes; "X" stands for a run of MAX_LINE bytes none of which is '\r' or  *)
(* '\n', so that the 64 KiB limit keeps its real value.                    *)
(***************************************************************************)
EXTENDS Integers, Sequences, FiniteSets, TLC

(* ------------------------------ bounds -------------------------------- *)
\* sessions the accept loop creates
MaxSessions == 2
\* tokens one session's peer sends over the connection's life
MaxRecv == 3
\* tokens of all sessions together
MaxTotal == 3
\* tokens one read_some brings into the buffer
MaxChunk == 2

\* bytes of the line a client reads from standard input
MaxStdin == 2
\* sessions in the behaviours checked for liveness
LiveSessions == 1

(* ------------------------- program constants -------------------------- *)
MAX_LINE == 64 * 1024

Sids == 1..MaxSessions
Bytes == {"a", "\r", "\n", "X"}

PREFIX == <<"#", " ", "e", "c", "h", "o", ">", " ">>

(* --------------------------- byte strings ----------------------------- *)
ByteLen(tok) == IF tok = "X" THEN MAX_LINE ELSE 1

RECURSIVE Size(_)
\* streambuf::size(): the number of unconsumed bytes
Size(buf) == IF buf = <<>> THEN 0 ELSE ByteLen(Head(buf)) + Size(Tail(buf))

HasDelim(buf) == \E i \in 1..Len(buf) : buf[i] = "\n"

\* position of the first '\n', or Len(buf)+1 when there is none
DelimPos(buf) ==
  IF HasDelim(buf)
    THEN CHOOSE i \in 1..Len(buf) :
           buf[i] = "\n" /\ \A j \in 1..(i-1) : buf[j] # "\n"
    ELSE Len(buf) + 1

\* std::getline(is, line): the bytes before the first '\n' (all bytes at EOF)
GetLine(buf) == SubSeq(buf, 1, DelimPos(buf) - 1)

\* the whole buffer consumed, as buffer_.consume(buffer_.size()) would
AfterLine_All(buf) == <<>>

\* what std::getline leaves in the buffer: the bytes after that '\n'
AfterLine(buf) == SubSeq(buf, DelimPos(buf) + 1, Len(buf))

\* the line kept as received
PopCR_Keep(line) == line

\* if (!line.empty() && line.back() == '\r') line.pop_back();
PopCR(line) ==
  IF line # <<>> /\ line[Len(line)] = "\r"
    THEN SubSeq(line, 1, Len(line) - 1)
    ELSE line

\* out_ = "# echo> " + line + "\n";
EchoOf(line) == PREFIX \o line \o <<"\n">>

\* the non-empty chunks of at most n tokens
RECURSIVE SeqsUpTo(_)
SeqsUpTo(n) ==
  IF n = 0 THEN {<<>>}
  ELSE LET P == SeqsUpTo(n - 1)
       IN  P \cup {Append(p, b) : p \in {q \in P : Len(q) = n - 1}, b \in Bytes}

Chunks == SeqsUpTo(MaxChunk) \ {<<>>}

(* ------------------------------ state --------------------------------- *)
VARIABLES
  running,     \* io.run() has not returned: the event loop dispatches handlers
  exitCode,    \* server_async's exit status once main has returned, else -1
  accepts,     \* number of async_accept operations outstanding
  nsess,       \* number of Session objects constructed so far
  sess,        \* sess[s]: the Session object of connection s
  peer,        \* peer[s]: what the remote end of connection s is doing
  cl,          \* one run of a client program (client_sync or client_async)
  sync         \* server_sync: its main loop and the connection it serves

vars == <<running, exitCode, accepts, nsess, sess, peer, cl, sync>>

\* steady_timer with no wait submitted
NoTimer == [pending |-> FALSE, fired |-> 0, late |-> 0, aborted |-> 0]

\* A Session as its constructor leaves it.  socket_open, buffer_, out_ and
\* timer_ are the members; rd and wrop are the state of the async_read_until
\* and async_write operation ("none", "pending", or completed and queued with
\* "ok" or "err"); refs counts the shared_ptr copies held by handlers.
\* timer_.pending: a wait is running; timer_.fired: waits that expired and
\* are queued with no error; timer_.late: such waits on which cancel() was
\* called after they expired; timer_.aborted: waits queued with
\* operation_aborted.
\* rx, wr, wok, over, closedBy and lateClose record the history: bytes
\* received, messages handed to async_write, writes completed without error,
\* whether the unconsumed buffer has ever held more than MAX_LINE bytes and
\* no '\n', the cause of the first close, and whether a cancelled wait closed the session.
\* closes counts the times the descriptor was shut down and closed, reclosed
\* tells that close() has run on the session when its socket was closed;
\* overlap tells that a read or a write was submitted while another read or
\* write of the session was outstanding or had its completion queued.
NewSession ==
  [ created     |-> FALSE,
    socket_open |-> FALSE,
    buffer_     |-> <<>>,
    out_        |-> <<>>,
    timer_      |-> NoTimer,
    rd          |-> "none",
    wrop        |-> "none",
    refs        |-> 0,
    rx          |-> <<>>,
    wr          |-> <<>>,
    wok         |-> 0,
    over        |-> FALSE,
    closedBy    |-> "none",
    lateClose   |-> FALSE,
    closes      |-> 0,
    reclosed    |-> FALSE,
    overlap     |-> FALSE ]

(* ------------------------- Session's methods -------------------------- *)
\* timer_.cancel(): a running wait completes with operation_aborted; a wait
\* that has already expired stays queued with no error.
cancel_timeout(S) ==
  [S EXCEPT !.timer_ =
     [ pending |-> FALSE,
       fired   |-> 0,
       late    |-> S.timer_.late + S.timer_.fired,
       aborted |-> S.timer_.aborted + (IF S.timer_.pending THEN 1 ELSE 0) ]]

\* a close() that stops the timer and leaves the socket alone
close_TimerOnly(S, cause) ==
  LET C == cancel_timeout(S)
  IN  [C EXCEPT !.closedBy = IF C.closedBy = "none" THEN cause ELSE C.closedBy]

\* a close() whose shutdown and close act on the descriptor at every call
close_Unchecked(S, cause) ==
  LET C == cancel_timeout(S)
  IN  [C EXCEPT !.socket_open = FALSE,
                !.rd       = IF C.rd = "pending" THEN "err" ELSE C.rd,
                !.wrop     = IF C.wrop = "pending" THEN "err" ELSE C.wrop,
                !.closedBy = IF C.closedBy = "none" THEN cause ELSE C.closedBy,
                !.closes   = C.closes + 1,
                !.reclosed = C.reclosed \/ ~C.socket_open]

\* close(): cancel the timer, shut the socket down and close it; the
\* operations outstanding on the socket complete with an error.  On a socket
\* that is not open, shutdown fails with bad_descriptor (ignored) and close
\* does nothing.
close(S, cause) ==
  LET C == cancel_timeout(S)
  IN  [C EXCEPT !.socket_open = FALSE,
                !.rd       = IF C.rd = "pending" THEN "err" ELSE C.rd,
                !.wrop     = IF C.wrop = "pending" THEN "err" ELSE C.wrop,
                !.closedBy = IF C.closedBy = "none" THEN cause ELSE C.closedBy,
                !.closes   = C.closes + (IF C.socket_open THEN 1 ELSE 0),
                !.reclosed = C.reclosed \/ ~C.socket_open]

\* an arm_timeout() whose wait handler captures this and no shared_ptr
arm_timeout_NoSelf(S) ==
  LET C == cancel_timeout(S)
  IN  [C EXCEPT !.timer_.pending = TRUE]

\* arm_timeout(): expires_after cancels a running wait, async_wait submits a
\* new one whose handler holds a reference to the session.
arm_timeout(S) ==
  LET C == cancel_timeout(S)
  IN  [C EXCEPT !.timer_.pending = TRUE, !.refs = C.refs + 1]

\* do_read_line(): closes when the buffer is beyond MAX_LINE, otherwise
\* submits async_read_until.  The read completes at once when the buffer
\* already holds a '\n', and with an error when the socket is closed; imm is
\* the completion the library gives on a closed socket whose buffer holds a
\* '\n' (it differs between Asio releases).
do_read_line(S, imm) ==
  IF Size(S.buffer_) > MAX_LINE
    THEN close(S, "overflow")
    ELSE [S EXCEPT !.refs = S.refs + 1,
                   !.overlap = S.overlap \/ S.rd # "none" \/ S.wrop # "none",
                   !.rd   = IF S.socket_open
                              THEN IF HasDelim(S.buffer_) THEN "ok" ELSE "pending"
                              ELSE IF HasDelim(S.buffer_) THEN imm ELSE "err"]

\* do_write(): submits async_write of out_
do_write(S) ==
  [S EXCEPT !.refs = S.refs + 1,
            !.overlap = S.overlap \/ S.rd # "none" \/ S.wrop # "none",
            !.wr   = Append(S.wr, S.out_),
            !.wrop = IF S.socket_open THEN "pending" ELSE "err"]

\* start(): set_option, then the first read, then the timer
start(S) == arm_timeout(do_read_line(S, "err"))

\* a read handler that submits the next read together with the reply
on_read_ReadAhead(S) ==
  LET C == cancel_timeout([S EXCEPT !.rd = "none"])
      line == PopCR(GetLine(C.buffer_))
      D == IF S.rd = "err"
             THEN close(C, "read_error")
             ELSE do_read_line(do_write([C EXCEPT !.buffer_ = AfterLine(C.buffer_),
                                                  !.out_    = EchoOf(line)]), "err")
  IN  [D EXCEPT !.refs = D.refs - 1]

\* the completion handler of async_read_until (the lambda in do_read_line)
on_read(S) ==
  LET C == cancel_timeout([S EXCEPT !.rd = "none"])
      line == PopCR(GetLine(C.buffer_))
      D == IF S.rd = "err"
             THEN close(C, "read_error")
             ELSE do_write([C EXCEPT !.buffer_ = AfterLine(C.buffer_),
                                     !.out_    = EchoOf(line)])
  IN  [D EXCEPT !.refs = D.refs - 1]

\* a write handler that returns on an error without closing the session
on_write_KeepOpen(S, imm) ==
  LET C == [S EXCEPT !.wrop = "none"]
      D == IF S.wrop = "err"
             THEN C
             ELSE do_read_line(arm_timeout([C EXCEPT !.wok = C.wok + 1]), imm)
  IN  [D EXCEPT !.refs = D.refs - 1]

\* the completion handler of async_write (the lambda in do_write)
on_write(S, imm) ==
  LET C == [S EXCEPT !.wrop = "none"]
      D == IF S.wrop = "err"
             THEN close(C, "write_error")
             ELSE do_read_line(arm_timeout([C EXCEPT !.wok = C.wok + 1]), imm)
  IN  [D EXCEPT !.refs = D.refs - 1]

\* a wait handler that returns without closing whatever its error code
on_timer_Return(S, ec) ==
  [S EXCEPT !.timer_[ec] = S.timer_[ec] - 1, !.refs = S.refs - 1]

\* the completion handler of timer_.async_wait (the lambda in arm_timeout);
\* ec is "aborted" for a cancelled wait, "fired" or "late" for an expired one
on_timer(S, ec) ==
  LET C == [S EXCEPT !.timer_[ec] = S.timer_[ec] - 1]
      D == IF ec = "aborted"
             THEN C
             ELSE [close(C, "timeout") EXCEPT
                     !.lateClose = C.lateClose \/ (ec = "late" /\ C.socket_open)]
  IN  [D EXCEPT !.refs = D.refs - 1]

\* ~Session when the io_context is destroyed with operations outstanding:
\* the handlers are destroyed unrun, the socket and the timer are released.
destroy(S) ==
  IF ~S.created THEN S
  ELSE [S EXCEPT !.socket_open = FALSE, !.rd = "none", !.wrop = "none",
                 !.timer_ = NoTimer, !.refs = 0,
                 !.closes = S.closes + (IF S.socket_open THEN 1 ELSE 0),
                 !.closedBy = IF S.closedBy = "none" THEN "destroyed" ELSE S.closedBy]

(* ------------------------------- Init --------------------------------- *)
\* A client run before main() starts.  variant is the program; pc is the
\* step main (or the event loop) is at; eof and stdin are what standard input
\* holds; out_ is the string handed to write; connected, wrote, sent, printed
\* and failed record what the run did; exit is the exit status (-1: running).
NoClient ==
  [ variant   |-> "none",
    pc        |-> "idle",
    eof       |-> FALSE,
    stdin     |-> <<>>,
    out_      |-> <<>>,
    connected |-> FALSE,
    wrote     |-> FALSE,
    sent      |-> <<>>,
    printed   |-> <<>>,
    failed    |-> "none",
    exit      |-> -1 ]

\* main() up to io.run(): the acceptor listens and the first async_accept
\* has been submitted by do_accept()
ServerInit ==
  /\ running = TRUE
  /\ exitCode = -1
  /\ accepts = 1
  /\ nsess = 0
  /\ sess = [s \in Sids |-> NewSession]
  /\ peer = [s \in Sids |-> "none"]

\* server_sync before main() starts.  pc is the statement the loop is at;
\* buf is the streambuf of the connection being served, out the reply
\* string; rx and wr record the bytes received on that connection and the
\* strings handed to net::write on it.
NoSync ==
  [ pc  |-> "idle",
    buf |-> <<>>,
    out |-> <<>>,
    rx  |-> <<>>,
    wr  |-> <<>> ]

\* the server alone: no client program is run
Init == ServerInit /\ cl = NoClient /\ sync = NoSync

RECURSIVE SumRx(_)
SumRx(S) ==
  IF S = {} THEN 0
  ELSE LET s == CHOOSE x \in S : TRUE IN Len(sess[s].rx) + SumRx(S \ {s})

(* --------------------------- accept loop ------------------------------ *)
\* The completion handler of async_accept.  ec is the completion's error
\* code; gone tells that the accepted peer has already disconnected, in which
\* case socket.remote_endpoint() throws: the exception leaves the handler and
\* io.run(), main's catch returns 1, and the unwinding destroys the acceptor
\* and the io_context with every operation still outstanding.
AcceptHandler(ec, gone) ==
  /\ running
  /\ accepts > 0
  /\ IF ec = "err"
       THEN /\ accepts' = (accepts - 1) + 1
            /\ UNCHANGED <<running, exitCode, nsess, sess, peer, cl, sync>>
       ELSE /\ nsess < MaxSessions
            /\ IF gone
                 THEN /\ running' = FALSE
                      /\ exitCode' = 1
                      /\ accepts' = 0
                      /\ sess' = [s \in Sids |-> destroy(sess[s])]
                      /\ UNCHANGED <<nsess, peer, cl, sync>>
                 ELSE /\ nsess' = nsess + 1
                      /\ sess' = [sess EXCEPT ![nsess + 1] =
                                    start([NewSession EXCEPT !.created = TRUE,
                                                             !.socket_open = TRUE])]
                      /\ peer' = [peer EXCEPT ![nsess + 1] = "active"]
                      /\ accepts' = (accepts - 1) + 1
                      /\ UNCHANGED <<running, exitCode, cl, sync>>

(* ------------------------ completion handlers ------------------------- *)
\* the read handler as it would be with out_ one string shared by all sessions
ReadHandler_SharedOut(s) ==
  /\ running
  /\ sess[s].rd \in {"ok", "err"}
  /\ sess' = [t \in Sids |->
                IF t = s THEN on_read(sess[s])
                ELSE IF sess[t].created
                       THEN [sess[t] EXCEPT !.out_ = on_read(sess[s]).out_]
                       ELSE sess[t]]
  /\ UNCHANGED <<running, exitCode, accepts, nsess, peer, cl, sync>>

ReadHandler(s) ==
  /\ running
  /\ sess[s].rd \in {"ok", "err"}
  /\ sess' = [sess EXCEPT ![s] = on_read(sess[s])]
  /\ UNCHANGED <<running, exitCode, accepts, nsess, peer, cl, sync>>

WriteHandler(s) ==
  /\ running
  /\ sess[s].wrop \in {"ok", "err"}
  /\ \E imm \in {"ok", "err"} : sess' = [sess EXCEPT ![s] = on_write(sess[s], imm)]
  /\ UNCHANGED <<running, exitCode, accepts, nsess, peer, cl, sync>>

TimerHandler(s) ==
  /\ running
  /\ \E ec \in {"fired", "late", "aborted"} :
       /\ sess[s].timer_[ec] > 0
       /\ sess' = [sess EXCEPT ![s] = on_timer(sess[s], ec)]
  /\ UNCHANGED <<running, exitCode, accepts, nsess, peer, cl, sync>>

(* ---------------------- the network and the clock --------------------- *)
\* a receive path that arms the timer anew at every chunk of bytes
Recv_Rearm(s, chunk) ==
  /\ running
  /\ sess[s].socket_open
  /\ sess[s].rd = "pending"
  /\ peer[s] = "active"
  /\ Len(sess[s].rx) + Len(chunk) <= MaxRecv
  /\ SumRx(Sids) + Len(chunk) <= MaxTotal
  /\ sess' = [sess EXCEPT ![s] =
                arm_timeout([@ EXCEPT !.buffer_ = @ \o chunk,
                                      !.rx = @ \o chunk,
                                      !.rd = IF HasDelim(chunk) THEN "ok" ELSE "pending"])]
  /\ UNCHANGED <<running, exitCode, accepts, nsess, peer, cl, sync>>

\* One read_some of the outstanding async_read_until: chunk is appended to
\* buffer_; the operation completes when the buffer holds a '\n'.
Recv(s, chunk) ==
  /\ running
  /\ sess[s].socket_open
  /\ sess[s].rd = "pending"
  /\ peer[s] = "active"
  /\ Len(sess[s].rx) + Len(chunk) <= MaxRecv
  /\ SumRx(Sids) + Len(chunk) <= MaxTotal
  /\ sess' = [sess EXCEPT ![s].buffer_ = @ \o chunk,
                          ![s].rx = @ \o chunk,
                          ![s].over = @ \/ ( /\ ~HasDelim(sess[s].buffer_ \o chunk)
                                              /\ Size(sess[s].buffer_ \o chunk) > MAX_LINE ),
                          ![s].rd = IF HasDelim(chunk) THEN "ok" ELSE "pending"]
  /\ UNCHANGED <<running, exitCode, accepts, nsess, peer, cl, sync>>

\* the peer stops sending and stays connected (the choice shows only while
\* a read waits for its bytes)
PeerSilent(s) ==
  /\ running
  /\ sess[s].socket_open
  /\ sess[s].rd = "pending"
  /\ peer[s] = "active"
  /\ peer' = [peer EXCEPT ![s] = "silent"]
  /\ UNCHANGED <<running, exitCode, accepts, nsess, sess, cl, sync>>

\* the peer closes or resets the connection (the choice shows only while
\* an operation is outstanding on the socket)
PeerClose(s) ==
  /\ running
  /\ sess[s].socket_open
  /\ sess[s].rd = "pending" \/ sess[s].wrop = "pending"
  /\ peer[s] = "active"
  /\ peer' = [peer EXCEPT ![s] = "gone"]
  /\ UNCHANGED <<running, exitCode, accepts, nsess, sess, cl, sync>>

\* the outstanding read meets end of stream or a reset
ReadFail(s) ==
  /\ running
  /\ sess[s].rd = "pending"
  /\ peer[s] = "gone"
  /\ sess' = [sess EXCEPT ![s].rd = "err"]
  /\ UNCHANGED <<running, exitCode, accepts, nsess, peer, cl, sync>>

\* the outstanding write has sent all of out_
WriteDone(s) ==
  /\ running
  /\ sess[s].wrop = "pending"
  /\ sess' = [sess EXCEPT ![s].wrop = "ok"]
  /\ UNCHANGED <<running, exitCode, accepts, nsess, peer, cl, sync>>

\* the outstanding write fails on a connection the peer has left
WriteFail(s) ==
  /\ running
  /\ sess[s].wrop = "pending"
  /\ peer[s] = "gone"
  /\ sess' = [sess EXCEPT ![s].wrop = "err"]
  /\ UNCHANGED <<running, exitCode, accepts, nsess, peer, cl, sync>>

\* READ_TIMEOUT has passed since the running wait was submitted
TimerExpire(s) ==
  /\ running
  /\ sess[s].timer_.pending
  /\ sess' = [sess EXCEPT ![s].timer_.pending = FALSE,
                          ![s].timer_.fired = @ + 1]
  /\ UNCHANGED <<running, exitCode, accepts, nsess, peer, cl, sync>>

Next ==
  \/ \E ec \in {"ok", "err"}, gone \in BOOLEAN : AcceptHandler(ec, gone)
  \/ \E s \in Sids : ReadHandler(s)
  \/ \E s \in Sids : WriteHandler(s)
  \/ \E s \in Sids : TimerHandler(s)
  \/ \E s \in Sids, chunk \in Chunks : Recv(s, chunk)
  \/ \E s \in Sids : PeerSilent(s)
  \/ \E s \in Sids : PeerClose(s)
  \/ \E s \in Sids : ReadFail(s)
  \/ \E s \in Sids : WriteDone(s)
  \/ \E s \in Sids : WriteFail(s)
  \/ \E s \in Sids : TimerExpire(s)

Spec == Init /\ [][Next]_vars

\* The event loop runs every queued completion handler and the clock
\* advances; the network owes nothing.
Fairness ==
  \A s \in Sids :
    /\ WF_vars(ReadHandler(s))
    /\ WF_vars(WriteHandler(s))
    /\ WF_vars(TimerHandler(s))
    /\ WF_vars(TimerExpire(s))

\* the accept handler in the behaviours with at most LiveSessions connections
LiveAccept(ec, gone) == AcceptHandler(ec, gone) /\ nsess' <= LiveSessions

LiveNext ==
  \/ \E ec \in {"ok", "err"}, gone \in BOOLEAN : LiveAccept(ec, gone)
  \/ \E s \in Sids : ReadHandler(s)
  \/ \E s \in Sids : WriteHandler(s)
  \/ \E s \in Sids : TimerHandler(s)
  \/ \E s \in Sids, chunk \in Chunks : Recv(s, chunk)
  \/ \E s \in Sids : PeerSilent(s)
  \/ \E s \in Sids : PeerClose(s)
  \/ \E s \in Sids : ReadFail(s)
  \/ \E s \in Sids : WriteDone(s)
  \/ \E s \in Sids : WriteFail(s)
  \/ \E s \in Sids : TimerExpire(s)

LiveSpec == Init /\ [][LiveNext]_vars /\ Fairness

(* ========================= the client programs ======================== *)
srv == <<running, exitCode, accepts, nsess, sess, peer, sync>>

\* the lines std::getline can read from standard input
StdinLines == {l \in SeqsUpTo(MaxStdin) : ~HasDelim(l)}

\* a run of either program on either an empty standard input or one line
ClientInit ==
  /\ ServerInit
  /\ \E v \in {"sync", "async"}, e \in BOOLEAN, l \in StdinLines :
       /\ e => l = <<>>
       /\ cl = [NoClient EXCEPT !.variant = v,
                                !.pc = IF v = "sync" THEN "resolve" ELSE "getline",
                                !.eof = e,
                                !.stdin = l]
  /\ sync = NoSync

\* main returns code
Exit(c, code) == [c EXCEPT !.pc = "done", !.exit = code]

\* what a server sends back for the bytes sent: the echo of their first line
ReplyTo(sent) == EchoOf(PopCR(GetLine(sent)))

(* ---- client_sync: main ---- *)
\* resolver.resolve(host, port) throws on failure: catch, return 1
Sync_resolve(ok) ==
  /\ cl.variant = "sync" /\ cl.pc = "resolve"
  /\ cl' = IF ok THEN [cl EXCEPT !.pc = "connect"]
                 ELSE Exit([cl EXCEPT !.failed = "resolve"], 1)
  /\ UNCHANGED srv

\* net::connect(sock, endpoints) throws on failure: catch, return 1
Sync_connect(ok) ==
  /\ cl.variant = "sync" /\ cl.pc = "connect"
  /\ cl' = IF ok THEN [cl EXCEPT !.pc = "getline", !.connected = TRUE]
                 ELSE Exit([cl EXCEPT !.failed = "connect"], 1)
  /\ UNCHANGED srv

\* std::getline(std::cin, line), return 2 without input; line.push_back('\n')
Sync_getline ==
  /\ cl.variant = "sync" /\ cl.pc = "getline"
  /\ cl' = IF cl.eof THEN Exit(cl, 2)
                     ELSE [cl EXCEPT !.pc = "write", !.out_ = cl.stdin \o <<"\n">>]
  /\ UNCHANGED srv

\* net::write(sock, net::buffer(line), ec); return 3 on error
Sync_write(ok) ==
  /\ cl.variant = "sync" /\ cl.pc = "write"
  /\ cl' = IF ok THEN [cl EXCEPT !.pc = "read", !.wrote = TRUE, !.sent = cl.out_]
                 ELSE Exit([cl EXCEPT !.failed = "send"], 3)
  /\ UNCHANGED srv

\* net::read_until(sock, buf, '\n', ec); return 4 on error; otherwise getline,
\* print, shutdown and close, return 0
Sync_read(ok) ==
  /\ cl.variant = "sync" /\ cl.pc = "read"
  /\ ok => HasDelim(cl.sent)
  /\ cl' = IF ok THEN Exit([cl EXCEPT !.printed =
                               <<GetLine(ReplyTo(cl.sent)) \o <<"\n">>>>], 0)
                 ELSE Exit([cl EXCEPT !.failed = "receive"], 4)
  /\ UNCHANGED srv

(* ---- client_async: main and struct Client ---- *)
\* main: std::getline, return 2 without input; Client's constructor appends
\* '\n' to a non-empty line that does not end with one; client->start()
Async_main ==
  /\ cl.variant = "async" /\ cl.pc = "getline"
  /\ cl' = IF cl.eof THEN Exit(cl, 2)
           ELSE [cl EXCEPT !.pc = "resolve",
                           !.out_ = IF cl.stdin # <<>> /\ cl.stdin[Len(cl.stdin)] # "\n"
                                      THEN cl.stdin \o <<"\n">>
                                      ELSE cl.stdin]
  /\ UNCHANGED srv

\* the handler in Client::start: on error log and return, which leaves
\* io.run() without work, and main returns 0
Client_on_resolve(ok) ==
  /\ cl.variant = "async" /\ cl.pc = "resolve"
  /\ cl' = IF ok THEN [cl EXCEPT !.pc = "connect"]
                 ELSE Exit([cl EXCEPT !.failed = "resolve"], 0)
  /\ UNCHANGED srv

\* the handler in Client::do_connect
Client_on_connect(ok) ==
  /\ cl.variant = "async" /\ cl.pc = "connect"
  /\ cl' = IF ok THEN [cl EXCEPT !.pc = "write", !.connected = TRUE]
                 ELSE Exit([cl EXCEPT !.failed = "connect"], 0)
  /\ UNCHANGED srv

\* the handler in Client::do_write: on error log, close and return
Client_on_write(ok) ==
  /\ cl.variant = "async" /\ cl.pc = "write"
  /\ cl' = IF ok THEN [cl EXCEPT !.pc = "read", !.wrote = TRUE, !.sent = cl.out_]
                 ELSE Exit([cl EXCEPT !.failed = "send"], 0)
  /\ UNCHANGED srv

\* the handler in Client::do_read_line: on error log, close and return;
\* otherwise getline, drop a trailing '\r', print, close
Client_on_read(ok) ==
  /\ cl.variant = "async" /\ cl.pc = "read"
  /\ ok => HasDelim(cl.sent)
  /\ cl' = IF ok THEN Exit([cl EXCEPT !.printed =
                               <<PopCR(GetLine(ReplyTo(cl.sent))) \o <<"\n">>>>], 0)
                 ELSE Exit([cl EXCEPT !.failed = "receive"], 0)
  /\ UNCHANGED srv

ClientNext ==
  \/ \E ok \in BOOLEAN : Sync_resolve(ok)
  \/ \E ok \in BOOLEAN : Sync_connect(ok)
  \/ Sync_getline
  \/ \E ok \in BOOLEAN : Sync_write(ok)
  \/ \E ok \in BOOLEAN : Sync_read(ok)
  \/ Async_main
  \/ \E ok \in BOOLEAN : Client_on_resolve(ok)
  \/ \E ok \in BOOLEAN : Client_on_connect(ok)
  \/ \E ok \in BOOLEAN : Client_on_write(ok)
  \/ \E ok \in BOOLEAN : Client_on_read(ok)

ClientSpec == ClientInit /\ [][ClientNext]_vars

(* ============================ server_sync ============================= *)
\* server_sync's main up to the loop: the acceptor listens on the port
SyncInit ==
  /\ ServerInit
  /\ cl = NoClient
  /\ sync = [NoSync EXCEPT !.pc = "accept"]

\* acceptor.accept(sock, ec): on error log and continue; otherwise a new
\* connection with an empty streambuf is served
Sync_accept(ec) ==
  /\ sync.pc = "accept"
  /\ sync' = IF ec = "err" THEN sync
             ELSE [NoSync EXCEPT !.pc = "read"]
  /\ UNCHANGED <<running, exitCode, accepts, nsess, sess, peer, cl>>

\* one read_some inside net::read_until: chunk is appended to buf as long as
\* buf holds no '\n'
Sync_recv(chunk) ==
  /\ sync.pc = "read"
  /\ ~HasDelim(sync.buf)
  /\ Len(sync.rx) + Len(chunk) <= MaxRecv
  /\ sync' = [sync EXCEPT !.buf = @ \o chunk, !.rx = @ \o chunk]
  /\ UNCHANGED <<running, exitCode, accepts, nsess, sess, peer, cl>>

\* net::read_until returns: with an error the connection is closed;
\* otherwise std::getline(is, line) and out = "# echo> " + line + "\n"
Sync_read_until(ec) ==
  /\ sync.pc = "read"
  /\ IF ec = "err"
       THEN /\ ~HasDelim(sync.buf)
            /\ sync' = [sync EXCEPT !.pc = "close"]
       ELSE /\ HasDelim(sync.buf)
            /\ sync' = [sync EXCEPT !.pc  = "write",
                                    !.out = PREFIX \o GetLine(sync.buf) \o <<"\n">>,
                                    !.buf = AfterLine(sync.buf)]
  /\ UNCHANGED <<running, exitCode, accepts, nsess, sess, peer, cl>>

\* net::write(sock, net::buffer(out), ec); the outcome is only logged
Sync_net_write ==
  /\ sync.pc = "write"
  /\ sync' = [sync EXCEPT !.pc = "close", !.wr = Append(@, sync.out)]
  /\ UNCHANGED <<running, exitCode, accepts, nsess, sess, peer, cl>>

\* sock.shutdown(shutdown_both, ignore); sock.close(ignore); next iteration
Sync_close ==
  /\ sync.pc = "close"
  /\ sync' = [sync EXCEPT !.pc = "accept"]
  /\ UNCHANGED <<running, exitCode, accepts, nsess, sess, peer, cl>>

SyncNext ==
  \/ \E ec \in {"ok", "err"} : Sync_accept(ec)
  \/ \E chunk \in Chunks : Sync_recv(chunk)
  \/ \E ec \in {"ok", "err"} : Sync_read_until(ec)
  \/ Sync_net_write
  \/ Sync_close

SyncSpec == SyncInit /\ [][SyncNext]_vars


(* ======================= properties of the server ===================== *)
\* the positions of the '\n' bytes of a byte string
NlPos(b) == {i \in 1..Len(b) : b[i] = "\n"}

\* the number of complete lines in b
NumLines(b) == Cardinality(NlPos(b))

\* the position of the i-th '\n' of b (0 for i = 0)
NthNl(b, i) ==
  IF i = 0 THEN 0
  ELSE CHOOSE p \in NlPos(b) : Cardinality({q \in NlPos(b) : q < p}) = i - 1

\* the i-th line of b, without its '\n'
NthLine(b, i) == SubSeq(b, NthNl(b, i - 1) + 1, NthNl(b, i) - 1)

\* L with one trailing '\r' removed if present, L otherwise
StripOneCR(L) ==
  IF Len(L) > 0 /\ L[Len(L)] = "\r" THEN SubSeq(L, 1, Len(L) - 1) ELSE L

EndsInCR(L) == Len(L) > 0 /\ L[Len(L)] = "\r"

\* C1: every write a session submits is "# echo> " + L' + "\n" for the line L
\* it answers, L' being L without one trailing '\r'; hence a line L not ending
\* in '\r' gets the same reply whether it was sent as L "\r\n" or as L "\n".
EchoOfEveryLine ==
  /\ \A s \in Sids : \A i \in 1..Len(sess[s].wr) :
       /\ i <= NumLines(sess[s].rx)
       /\ sess[s].wr[i] =
            <<"#", " ", "e", "c", "h", "o", ">", " ">>
              \o StripOneCR(NthLine(sess[s].rx, i)) \o <<"\n">>
  /\ \A s, t \in Sids : \A i \in 1..Len(sess[s].wr), j \in 1..Len(sess[t].wr) :
       ( /\ ~EndsInCR(NthLine(sess[t].rx, j))
         /\ NthLine(sess[s].rx, i) = NthLine(sess[t].rx, j) \o <<"\r">> )
       => sess[s].wr[i] = sess[t].wr[j]

\* a session has answered the line "a\r" with "# echo> a\n"
EchoOfEveryLineWitness ==
  \E s \in Sids :
    /\ Len(sess[s].wr) >= 1
    /\ NthLine(sess[s].rx, 1) = <<"a", "\r">>
    /\ sess[s].wr[1] = <<"#", " ", "e", "c", "h", "o", ">", " ", "a", "\n">>

\* the line a reply carries: the reply without its tag and its final '\n'
BodyOf(msg) == SubSeq(msg, 9, Len(msg) - 1)

\* C2: a session that has received K lines submits K writes, one per line
\* and in the order of the lines (lines that arrived together included), and
\* it submits write i+1 only after write i has completed without error.
RepliesInOrder ==
  \A s \in Sids :
    LET S == sess[s] IN
    /\ Len(S.wr) <= NumLines(S.rx)
    /\ \A i \in 1..Len(S.wr) :
         BodyOf(S.wr[i]) \in {NthLine(S.rx, i), StripOneCR(NthLine(S.rx, i))}
    /\ Len(S.wr) <= S.wok + 1
    /\ (S.wrop # "none") => (Len(S.wr) = S.wok + 1)
    /\ (S.rd = "pending") => (Len(S.wr) = NumLines(S.rx) /\ S.wok = Len(S.wr))

\* three lines have been received and answered, every write has completed,
\* and the connection is open and reading again
RepliesInOrderWitness ==
  \E s \in Sids :
    /\ NumLines(sess[s].rx) = 3
    /\ Len(sess[s].wr) = 3
    /\ sess[s].wok = 3
    /\ sess[s].socket_open
    /\ sess[s].rd = "pending"

\* C3: a timer wait that was still unprocessed when the read handler ran and
\* cancelled it never closes the session.
CancelledTimerNeverCloses == \A s \in Sids : ~sess[s].lateClose

\* C4: a session that waits for bytes from a peer that sends none is
\* eventually closed by the firing of its inactivity timer, provided the
\* event loop is there to deliver the timer's completion, and it submits no
\* write from the moment the peer has fallen silent.
IdleSessionTimesOut ==
  /\ \A s \in Sids :
       (sess[s].socket_open /\ sess[s].rd = "pending" /\ peer[s] = "silent")
         ~> (sess[s].closedBy = "timeout" \/ ~running)
  /\ [][\A s \in Sids :
          peer[s] = "silent" => sess'[s].wr = sess[s].wr]_vars

\* a session whose peer never sent a byte has been closed by its timer, with
\* no reply written
IdleSessionTimesOutWitness ==
  \E s \in Sids :
    /\ peer[s] = "silent"
    /\ sess[s].rx = <<>>
    /\ sess[s].closedBy = "timeout"
    /\ ~sess[s].socket_open
    /\ sess[s].wr = <<>>
    /\ running

\* C5: once the peer has sent more than MAX_LINE bytes without a '\n', so
\* that the unconsumed buffer is beyond MAX_LINE, no write is submitted on
\* that session.
NoReplyAfterOversize ==
  [][\A s \in Sids : sess[s].over => sess'[s].wr = sess[s].wr]_vars

\* C6: one accept is outstanding at every moment after startup.
OneAcceptOutstanding == accepts = 1

\* C7: whatever happens to a connection, the event loop keeps running with an
\* accept outstanding.
ServerKeepsRunning == running /\ exitCode = -1 /\ accepts >= 1

\* C8: a step of the running event loop that changes a session changes no
\* other session (its buffer, outbound message, timer, operations and
\* open/closed state included), and the write it submits, if any, is the echo
\* of a line received on that same session.
SessionsIndependent ==
  [][running' =>
       \A s \in Sids :
         (sess'[s] # sess[s]) =>
           /\ \A t \in Sids \ {s} : sess'[t] = sess[t]
           /\ (Len(sess'[s].wr) > Len(sess[s].wr)) =>
                /\ Len(sess'[s].wr) = Len(sess[s].wr) + 1
                /\ BodyOf(sess'[s].wr[Len(sess'[s].wr)]) =
                     StripOneCR(NthLine(sess'[s].rx, Len(sess'[s].wr)))]_vars

\* two sessions are multiplexed and each has been sent the echo of its own,
\* different, line
SessionsIndependentWitness ==
  \E s, t \in Sids :
    /\ s # t
    /\ Len(sess[s].wr) >= 1 /\ Len(sess[t].wr) >= 1
    /\ sess[s].wr[1] # sess[t].wr[1]
    /\ sess[s].wok >= 1 /\ sess[t].wok >= 1

\* nothing of session s is left: no wait is running or queued, no read or
\* write is outstanding or queued, and no handler holds a reference
Released(s) ==
  /\ sess[s].refs = 0
  /\ sess[s].rd = "none" /\ sess[s].wrop = "none"
  /\ ~sess[s].timer_.pending
  /\ sess[s].timer_.fired + sess[s].timer_.late + sess[s].timer_.aborted = 0

\* C9: a session that has been closed, by whichever path, has its socket
\* closed, and from then on it eventually has no timer armed, no operation
\* outstanding and no reference to itself left.
ClosedSessionIsReleased ==
  /\ [](\A s \in Sids : sess[s].closedBy # "none" => ~sess[s].socket_open)
  /\ \A s \in Sids :
       (sess[s].created /\ sess[s].closedBy # "none") ~> Released(s)

\* a session closed by a write error has been released while the server runs
ClosedSessionIsReleasedWitness ==
  \E s \in Sids :
    /\ running
    /\ sess[s].closedBy = "write_error"
    /\ Len(sess[s].wr) >= 1
    /\ ~sess[s].socket_open
    /\ Released(s)

(* ===================== properties of the clients ====================== *)
\* C10: a client run ends with status 0 only if it connected, sent its line
\* and printed a reply; a resolution or connect failure ends it with status
\* 1, a send or receive failure with a non-zero status, which is 3 and 4 in
\* client_sync.
ClientExitStatus ==
  (cl.pc = "done") =>
    /\ (cl.exit = 0) => (cl.connected /\ cl.wrote /\ Len(cl.printed) = 1)
    /\ (cl.failed \in {"resolve", "connect"}) => (cl.exit = 1)
    /\ (cl.failed \in {"send", "receive"}) => (cl.exit # 0)
    /\ (cl.variant = "sync" /\ cl.failed = "send") => (cl.exit = 3)
    /\ (cl.variant = "sync" /\ cl.failed = "receive") => (cl.exit = 4)

(* ====================== properties of server_sync ===================== *)
\* the message server_async's read handler hands to async_write for a
\* session whose buffer holds the bytes b
AsyncReplyTo(b) ==
  on_read([NewSession EXCEPT !.created = TRUE, !.socket_open = TRUE,
                             !.buffer_ = b, !.rd = "ok", !.refs = 1]).out_

\* C11: for one exchange with a line L ended by '\n', server_sync writes the
\* bytes server_async writes, which are "# echo> " + L' + "\n" with L' being
\* L without one trailing '\r'.
SyncRepliesAsAsync ==
  \A i \in 1..Len(sync.wr) :
    /\ sync.wr[i] = AsyncReplyTo(sync.rx)
    /\ sync.wr[i] = <<"#", " ", "e", "c", "h", "o", ">", " ">>
                      \o StripOneCR(GetLine(sync.rx)) \o <<"\n">>

(* ================= properties of a session's life cycle =============== *)
\* the step submits an operation on session s: an async_write, an
\* async_read_until or a timer wait
Submits(s) ==
  \/ Len(sess'[s].wr) > Len(sess[s].wr)
  \/ sess[s].rd = "none" /\ sess'[s].rd # "none"
  \/ sess'[s].timer_.pending /\ ~sess[s].timer_.pending
  \/ sess'[s].timer_.pending /\ sess'[s].timer_.aborted > sess[s].timer_.aborted

\* C12: once close() has run on a session, no step submits a read, a write
\* or a timer wait on it, whatever the order in which the completions queued
\* at that moment are processed.
NoSubmitAfterClose ==
  [][\A s \in Sids : sess[s].closedBy # "none" => ~Submits(s)]_vars

\* C13: the descriptor of a session is shut down and closed at most once:
\* the first close() that runs does it, and a close() that runs on a session
\* already closed, whichever trigger calls it, changes nothing of the socket
\* and of the operations outstanding on it.
TransportClosedOnce ==
  /\ [](\A s \in Sids :
          /\ sess[s].closes <= 1
          /\ (sess[s].closedBy # "none") => (sess[s].closes = 1 /\ ~sess[s].socket_open))
  /\ [][\A s \in Sids :
          (sess[s].closedBy # "none" /\ sess'[s].reclosed /\ ~sess[s].reclosed) =>
            /\ sess'[s].closes = sess[s].closes
            /\ sess'[s].socket_open = sess[s].socket_open
            /\ sess'[s].closedBy = sess[s].closedBy]_vars

\* the timer closed a session whose read was pending, and the read handler,
\* run with the error of the aborted read, has called close() a second time
TransportClosedOnceWitness ==
  \E s \in Sids :
    /\ sess[s].closedBy = "timeout"
    /\ sess[s].reclosed
    /\ sess[s].closes = 1
    /\ sess[s].rd = "none" /\ sess[s].wr = <<>>
    /\ running

\* C14: in every reachable state the unconsumed bytes of a session's read
\* buffer number at most MAX_LINE (65536).
BufferWithinMaxLine ==
  \A s \in Sids : Size(sess[s].buffer_) <= MAX_LINE

\* C15: a session never has a read and a write in progress together (be it
\* outstanding on the socket or completed and waiting for its handler), and
\* it never submits a read or a write while one is in progress; this holds
\* for closed sessions too, whose queued completions are still processed.
OneOperationAtATime ==
  \A s \in Sids :
    /\ ~(sess[s].rd # "none" /\ sess[s].wrop # "none")
    /\ ~sess[s].overlap

\* a session that had answered a line was closed by its timer with a read
\* completion queued; the read handler, run after the close, has submitted a
\* write, which is the only operation of the session
OneOperationAtATimeWitness ==
  \E s \in Sids :
    /\ sess[s].closedBy = "timeout"
    /\ sess[s].wok >= 1
    /\ Len(sess[s].wr) = 2
    /\ sess[s].wrop = "err"
    /\ sess[s].rd = "none"

\* a wait of session s's timer that closes the session when its handler
\* runs: a wait still running, or one that has expired and whose handler is
\* queued with no error
WaitOutstanding(s) ==
  \/ sess[s].timer_.pending
  \/ sess[s].timer_.fired + sess[s].timer_.late > 0

\* C16: between handlers, an open session with a read outstanding (Reading)
\* has a timer wait outstanding, and an open session with a write outstanding
\* (Writing) has none.
TimerArmedOnlyWhileReading ==
  \A s \in Sids :
    sess[s].socket_open =>
      /\ (sess[s].rd = "pending") => WaitOutstanding(s)
      /\ (sess[s].wrop = "pending") => ~WaitOutstanding(s)

\* the step runs the read or the write handler of session s on a completion
\* that carries an error
ErrorCompletion(s) ==
  /\ running'
  /\ \/ sess[s].rd = "err" /\ sess'[s].rd # "err"
     \/ sess[s].wrop = "err" /\ sess'[s].wrop # "err"

\* C17: the handler of a read or write completion that carries an error
\* leaves its session closed, with no timer wait running or about to fire,
\* no reply and no read submitted, and changes neither the accept loop nor
\* any other session.
ErrorClosesOnlyThatSession ==
  [][\A s \in Sids :
       ErrorCompletion(s) =>
         /\ ~sess'[s].socket_open
         /\ sess'[s].closedBy # "none"
         /\ sess'[s].closes = 1
         /\ ~sess'[s].timer_.pending /\ sess'[s].timer_.fired = 0
         /\ sess'[s].wr = sess[s].wr
         /\ sess'[s].rd = "none" /\ sess'[s].wrop = "none"
         /\ \A t \in Sids \ {s} : sess'[t] = sess[t]
         /\ accepts' = accepts /\ nsess' = nsess /\ peer' = peer
         /\ running' = running /\ exitCode' = exitCode]_vars

\* one session has been closed by a read error and the other by a write
\* error while the accept loop goes on
ErrorClosesOnlyThatSessionWitness ==
  \E s, t \in Sids :
    /\ sess[s].closedBy = "read_error"
    /\ sess[t].closedBy = "write_error"
    /\ running /\ accepts = 1

\* the operations of session s that are outstanding or whose completion is
\* queued: the read, the write and every timer wait
Operations(s) ==
  (IF sess[s].rd # "none" THEN 1 ELSE 0)
    + (IF sess[s].wrop # "none" THEN 1 ELSE 0)
    + (IF sess[s].timer_.pending THEN 1 ELSE 0)
    + sess[s].timer_.fired + sess[s].timer_.late + sess[s].timer_.aborted

\* C18: every operation of a session that is outstanding or has its
\* completion queued holds one owning reference to the Session, so the
\* Session is alive as long as there is one.
SessionOutlivesItsOperations ==
  \A s \in Sids :
    /\ sess[s].refs = Operations(s)
    /\ (Operations(s) > 0) => (sess[s].created /\ sess[s].refs > 0)

\* after the accept handler has returned, a session in Reading is kept alive
\* by three operations: the read, the running wait, and an earlier wait that
\* was cancelled and whose handler is still queued
SessionOutlivesItsOperationsWitness ==
  \E s \in Sids :
    /\ sess[s].rd = "pending"
    /\ sess[s].timer_.pending
    /\ sess[s].timer_.aborted = 1
    /\ sess[s].refs = 3
    /\ accepts = 1

(* ================== properties of the inactivity policy =============== *)
\* C19: no session whose peer is still connected stays open for ever with
\* its read outstanding or with its write outstanding: when the peer leaves
\* the operation uncompleted, the server ends up closing the session, in
\* Reading as in Writing.
AbandonedSessionIsClosed ==
  \A s \in Sids :
    []<>~( /\ sess[s].socket_open
           /\ peer[s] # "gone"
           /\ sess[s].rd = "pending" \/ sess[s].wrop = "pending" )

\* C20: a step that brings bytes and no '\n' into the buffer leaves the
\* timer as it is; as long as the read stays outstanding on the open session
\* its running wait is neither cancelled nor submitted anew, it can only
\* expire; and a session that holds bytes without a '\n' when its peer falls
\* silent is closed by the timer, with no reply, as an idle one is.
PartialLineDoesNotResetTimer ==
  /\ [][\A s \in Sids :
          (sess'[s].rx # sess[s].rx /\ ~HasDelim(sess'[s].buffer_)) =>
            sess'[s].timer_ = sess[s].timer_]_vars
  /\ [][\A s \in Sids :
          ( /\ sess[s].rd = "pending" /\ sess'[s].rd = "pending"
            /\ sess[s].timer_.pending /\ sess'[s].socket_open ) =>
            /\ sess'[s].timer_.aborted <= sess[s].timer_.aborted
            /\ \/ sess'[s].timer_.pending /\ sess'[s].timer_.fired = sess[s].timer_.fired
               \/ ~sess'[s].timer_.pending
                    /\ sess'[s].timer_.fired = sess[s].timer_.fired + 1]_vars
  /\ \A s \in Sids :
       ( /\ sess[s].socket_open /\ sess[s].rd = "pending"
         /\ sess[s].buffer_ # <<>> /\ peer[s] = "silent" )
         ~> ( \/ ~running
              \/ /\ sess[s].closedBy = "timeout"
                 /\ Len(sess[s].wr) = NumLines(sess[s].rx) )

\* a session whose peer sent the byte "a" and no line end has been closed by
\* its timer with nothing written
PartialLineDoesNotResetTimerWitness ==
  \E s \in Sids :
    /\ sess[s].rx = <<"a">>
    /\ sess[s].buffer_ = <<"a">>
    /\ peer[s] = "silent"
    /\ sess[s].closedBy = "timeout"
    /\ ~sess[s].socket_open
    /\ sess[s].wr = <<>>
    /\ running

(* =================== properties of the clients' send ================== *)
\* C21: a client that has read a line from standard input, the empty line
\* included, has sent that line followed by one '\n' and nothing else when
\* it waits for the reply, so that the server has a complete line to answer;
\* and a run in which no step failed ends with one reply printed.
ClientSendsLineAndNewline ==
  /\ (cl.pc = "read") => cl.wrote
  /\ cl.wrote =>
       /\ cl.sent = cl.stdin \o <<"\n">>
       /\ NumLines(cl.sent) = 1
  /\ (cl.pc = "done" /\ ~cl.eof /\ cl.failed = "none") => Len(cl.printed) = 1

====
